---- MODULE Spec2Model ----
(***************************************************************************)
(* TableReaderPlugin.on_page_markdown of mkdocs-table-reader-plugin        *)
(* (src/mkdocs_table_reader_plugin/plugin.py), as a state machine.         *)
(*                                                                         *)
(* Text is a sequence of tokens.  Every token stands for a fixed piece of  *)
(* text that the tag regex treats as a unit:                               *)
(*   "sp"            one space character                                   *)
(*   "nl"            one newline character                                 *)
(*   "txt"           a run of ordinary characters ("abc", "| a | b |")     *)
(*   "comma"         ","                                                   *)
(*   "{{ read_csv("  the opening of a read_csv tag   \{\{\s+read_csv\(     *)
(*   "{{ read_table(" the opening of a read_table tag                      *)
(*   ") }}"          the closing of a tag            \)\s+\}\}             *)
(*   "a.csv"         the argument literal naming the file a.csv            *)
(*   "fob=a.csv"     the keyword argument filepath_or_buffer = a.csv       *)
(*   "sep=;"         a keyword argument that names no file                 *)
(*   "bs-n"          the two characters backslash, n                       *)
(*   "bs-d"          the two characters backslash, d                       *)
(* A path is a sequence of components; an absolute path starts with "/".   *)
(***************************************************************************)
EXTENDS Integers, Sequences, FiniteSets, TLC

\* ---------------------------------------------------------------- bounds
\* Largest number of leading spaces written before a tag.
MaxIndent == 6

\* ------------------------------------------------------- sequence helpers
Repeat(x, n) == [i \in 1..n |-> x]

Slice(s, i, j) == IF j < i THEN <<>> ELSE SubSeq(s, i, j)

Min(S) == CHOOSE x \in S : \A y \in S : x <= y

Max(S) == CHOOSE x \in S : \A y \in S : x >= y

\* ------------------------------------------------------------ os.path
IsAbs(p) == p # <<>> /\ p[1] = "/"

\* os.path.join(a, b): an absolute second component discards the first.
Join(a, b) == IF IsAbs(b) THEN b ELSE a \o b

\* The file a path names: "." components do not change it.
Normalize(p) == SelectSeq(p, LAMBDA c : c # ".")

\* ------------------------------------------------------------ the host
\* os.path.dirname(os.path.abspath(config["config_file_path"]))
ConfigDir == <<"/", "proj">>

\* os.path.abspath(config["docs_dir"])
DocsDir == <<"/", "proj", "docs">>

\* os.path.dirname(page.file.abs_src_path): always absolute
PageDir == <<"/", "proj", "docs">>

\* READERS, in iteration order
READERS == <<"read_csv", "read_table">>

OpenTag(reader) == "{{ " \o reader \o "("

CloseTag == ") }}"

\* The value a name has before its first assignment in the function.
Unbound == <<"<unbound>">>

\* ------------------------------------------------------------ the tag regex
\* re.compile("( *)\{\{\s+%s\((.+)\)\s+\}\}" % reader, flags=re.IGNORECASE)
\* A match is [start, open, end]: the first token of group 1 (the leading
\* spaces), the opening token and the closing token.  start = 0: no match.
NoMatch == [start |-> 0, open |-> 0, end |-> 0]

\* "( *)" is greedy: the number of spaces that follow position p - 1.
SpacesFrom(text, p) ==
  Min({k \in 0..(Len(text) - p + 1) : p + k > Len(text) \/ text[p + k] # "sp"})

\* The closings "(.+)" can stop before: at least one token is captured and
\* "." matches no newline.
Closings(text, o) ==
  {e \in (o + 2)..Len(text) :
     text[e] = CloseTag /\ \A i \in (o + 1)..(e - 1) : text[i] # "nl"}

\* The match of the pattern that starts at p: "(.+)" is greedy, so it runs to
\* the last closing it can reach.
MatchAt(reader, text, p) ==
  LET o == p + SpacesFrom(text, p)
  IN IF o <= Len(text) /\ text[o] = OpenTag(reader) /\ Closings(text, o) # {}
     THEN [start |-> p, open |-> o, end |-> Max(Closings(text, o))]
     ELSE NoMatch

\* pattern.search(text, from): the leftmost match.
Search(reader, text, from) ==
  LET starts == {p \in from..Len(text) : MatchAt(reader, text, p) # NoMatch}
  IN IF starts = {} THEN NoMatch ELSE MatchAt(reader, text, Min(starts))

\* The non-overlapping matches, left to right.
RECURSIVE FindIter(_, _, _)
FindIter(reader, text, from) ==
  LET m == Search(reader, text, from)
  IN IF m = NoMatch THEN <<>> ELSE <<m>> \o FindIter(reader, text, m.end + 1)

\* The groups of a match: Python's result[0] and result[1] are result[1] and
\* result[2] here.
Groups(text, m) ==
  <<Slice(text, m.start, m.open - 1), Slice(text, m.open + 1, m.end - 1)>>

\* re.findall(tag_pattern, markdown)
FindAll(reader, text) ==
  LET ms == FindIter(reader, text, 1)
  IN [k \in 1..Len(ms) |-> Groups(text, ms[k])]

\* A replacement string is a template: re.sub reads its backslash escapes.
\* Backslash-n becomes a newline; backslash-d is a bad escape (re.error).
TemplateOk(repl) == \A i \in 1..Len(repl) : repl[i] # "bs-d"

ExpandTemplate(repl) ==
  [i \in 1..Len(repl) |-> IF repl[i] = "bs-n" THEN "nl" ELSE repl[i]]

\* tag_pattern.sub(repl, text, count=1), for a template without bad escapes
Sub(reader, repl, text) ==
  LET m == Search(reader, text, 1)
  IN IF m = NoMatch THEN text
     ELSE Slice(text, 1, m.start - 1) \o ExpandTemplate(repl)
            \o Slice(text, m.end + 1, Len(text))

\* ------------------------------------------------------------ indentation
\* str.split('\n')
RECURSIVE SplitOn(_, _)
SplitOn(s, sep) ==
  LET hits == {i \in 1..Len(s) : s[i] = sep}
  IN IF hits = {} THEN <<s>>
     ELSE <<Slice(s, 1, Min(hits) - 1)>>
            \o SplitOn(Slice(s, Min(hits) + 1, Len(s)), sep)

\* "\n".join(lines)
RECURSIVE JoinLines(_)
JoinLines(lines) ==
  IF Len(lines) = 1 THEN lines[1]
  ELSE lines[1] \o <<"nl">> \o JoinLines(Tail(lines))

\* textwrap.indent(line, prefix) for a text without newline: the prefix is
\* added only to a line that holds something other than whitespace.
TextwrapIndent(line, prefix) ==
  IF \E i \in 1..Len(line) : line[i] # "sp" THEN prefix \o line ELSE line

\* int(len(leading_spaces) / 4) * "    "
LeadingSpaces(captured) == Repeat("sp", 4 * (Len(captured) \div 4))

\* lines 116-124: the table with every line indented
IndentTable(table, captured) ==
  LET lines == SplitOn(table, "nl")
  IN JoinLines([k \in 1..Len(lines) |->
                  TextwrapIndent(lines[k], LeadingSpaces(captured))])

\* ------------------------------------------------------------ parse_argkwarg
\* An item of the argument list without its surrounding spaces.
Strip(item) == SelectSeq(item, LAMBDA c : c # "sp")

IsPositional(item) == item = <<"a.csv">>

IsKeyword(item) == item \in {<<"fob=a.csv">>, <<"sep=;">>}

KwName(item) == IF item = <<"fob=a.csv">> THEN "filepath_or_buffer" ELSE "sep"

\* The value of a literal: a file name is a relative path of one component.
Value(item) == IF item = <<"sep=;">> THEN <<";">> ELSE <<"a.csv">>

\* parse_argkwarg(raw): [error, args, kwargs]; kwargs is a function from the
\* keyword names given to their values.
ParseArgKwarg(raw) ==
  LET parts == SplitOn(raw, "comma")
      items == [k \in 1..Len(parts) |-> Strip(parts[k])]
      idx   == 1..Len(items)
      kws   == {k \in idx : IsKeyword(items[k])}
      pos   == SelectSeq(items, IsPositional)
  IN IF \E k \in idx : ~IsPositional(items[k]) /\ ~IsKeyword(items[k])
     THEN [error |-> "ArgSyntaxError", args |-> <<>>, kwargs |-> <<>>]
     ELSE IF \E i, j \in kws : i # j /\ KwName(items[i]) = KwName(items[j])
     THEN [error |-> "DuplicateArgumentError", args |-> <<>>, kwargs |-> <<>>]
     ELSE [error  |-> "none",
           args   |-> [k \in 1..Len(pos) |-> Value(pos[k])],
           kwargs |-> [n \in {KwName(items[k]) : k \in kws} |->
                         Value(items[CHOOSE k \in kws : KwName(items[k]) = n])]]

\* pd_kwargs.get("filepath_or_buffer"): None is the empty sequence, which is
\* false like the empty string.
KwGet(kwargs, name) == IF name \in DOMAIN kwargs THEN kwargs[name] ELSE <<>>

\* ------------------------------------------------------------ configuration
\* lines 63-66
MkdocsDir(cfg) == IF cfg.base_path = "config_dir" THEN ConfigDir ELSE DocsDir

\* SearchDirectories, were the page's directory put first.
SearchDirectoriesPageFirst(cfg) ==
  IF cfg.search_page_directory THEN <<PageDir, cfg.data_path>>
  ELSE <<cfg.data_path>>

\* lines 69-71
SearchDirectories(cfg) ==
  IF cfg.search_page_directory THEN <<cfg.data_path, PageDir>>
  ELSE <<cfg.data_path>>

\* os.path.exists(os.path.join(mkdocs_dir, path))
Exists(fs, base, path) == Normalize(Join(base, path)) \in fs

\* ------------------------------------------------------------ inputs
\* The process's working directory when the hook is called.
StartDir == <<"/", "home">>

\* The places a file named a.csv can be: the file system is any subset.
FileUniverse ==
  { <<"/", "proj", "a.csv">>, <<"/", "proj", "data", "a.csv">>,
    <<"/", "proj", "docs", "a.csv">>, <<"/", "proj", "docs", "data", "a.csv">> }

Configs ==
  [base_path : {"config_dir", "docs_dir"},
   data_path : {<<".">>, <<"data">>},
   search_page_directory : BOOLEAN]

DefaultConfig ==
  [base_path |-> "config_dir", data_path |-> <<".">>,
   search_page_directory |-> TRUE]

\* A tag as written: its reader and its argument text.
Written(reader, args) == [reader |-> reader, args |-> args]

PathTags ==
  { Written("read_csv", <<"a.csv">>), Written("read_csv", <<"fob=a.csv">>),
    Written("read_csv", <<"sep=;">>), Written("read_table", <<"a.csv">>) }

OtherTags ==
  { Written("read_csv", <<"a.csv", "comma", "sp", "sep=;">>),
    Written("read_csv", <<"sep=;", "comma", "sep=;">>),
    Written("read_csv", <<"txt">>) }

\* The text of a tag written after n spaces.
TagText(n, t) ==
  Repeat("sp", n) \o <<OpenTag(t.reader)>> \o t.args \o <<CloseTag>>

\* A document: tags (each after `indent` spaces) separated by `sep`.
DocText(d) ==
  IF Len(d.tags) = 1 THEN TagText(d.indent, d.tags[1])
  ELSE TagText(d.indent, d.tags[1]) \o d.sep \o TagText(d.indent, d.tags[2])

Seps == { <<"nl">>, <<"sp">>, <<"nl", "txt", "nl">> }

\* Documents that exercise resolution: unindented, one tag or two lines.
ResolveDocs ==
  { [indent |-> 0, sep |-> <<"nl">>, tags |-> <<t>>] : t \in PathTags \cup OtherTags }
  \cup { [indent |-> 0, sep |-> <<"nl">>, tags |-> <<t, u>>] :
           t \in {Written("read_csv", <<"a.csv">>), Written("read_csv", <<"sep=;">>)},
           u \in {Written("read_csv", <<"a.csv">>), Written("read_csv", <<"sep=;">>)} }

\* Documents that exercise layout: any indentation, any separator.
LayoutDocs ==
  { [indent |-> n, sep |-> <<"nl">>, tags |-> <<t>>] :
      n \in 0..MaxIndent, t \in {Written("read_csv", <<"a.csv">>)} }
  \cup { [indent |-> n, sep |-> sp, tags |-> <<t, u>>] :
      n \in 0..MaxIndent, sp \in Seps,
      t \in {Written("read_csv", <<"a.csv">>)},
      u \in {Written("read_csv", <<"a.csv">>), Written("read_csv", <<"fob=a.csv">>),
             Written("read_table", <<"a.csv">>)} }

\* What a render function can return.
Fragments ==
  { <<"txt">>,
    <<"txt", "nl", "nl", "txt">>,
    <<"{{ read_csv(", "a.csv", ") }}">>,
    <<"{{ read_table(", "a.csv", ") }}">>,
    <<"txt", "bs-n", "txt">>,
    <<"bs-d">> }

\* ------------------------------------------------------------ state
VARIABLES
  config,              \* self.config
  files,               \* the files that exist
  doc,                 \* the document as written (its tags, for reference)
  markdown,            \* the parameter and local `markdown`
  prov,                \* for each token of markdown: its index in the text
                       \* passed in, or -k when the k-th substitution put it
  pc,                  \* the position in on_page_markdown
  cwd,                 \* os.getcwd()
  prevdir,             \* the directory cd() goes back to
  mkdocs_dir,
  search_directories,
  ri,                  \* the index of `reader` in READERS
  matches,
  spans,               \* for each match: the prov of its tokens when found
  mi,                  \* the index of `result` in matches
  parsed,              \* what parse_argkwarg returned for this result
  pd_args,
  pd_kwargs,
  di,                  \* the index of `data_path` in search_directories
  input_file_path,
  output_file_path,
  markdown_table,
  error,               \* the exception that left the function, or "none"
  message,             \* what the FileNotFoundError message names
  returned,            \* the return value
  calls,               \* the calls of render functions so far
  subs                 \* the substitutions so far

vars ==
  <<config, files, doc, markdown, prov, pc, cwd, prevdir, mkdocs_dir,
    search_directories, ri, matches, spans, mi, parsed, pd_args, pd_kwargs,
    di, input_file_path, output_file_path, markdown_table, error, message,
    returned, calls, subs>>

inputs == <<config, files, doc>>

locals == <<ri, matches, spans, mi>>

call_args == <<parsed, pd_args, pd_kwargs>>

paths == <<input_file_path, output_file_path>>

NotReturned == <<"<nothing>">>

NoMessage == [file |-> <<>>, dirs |-> <<>>]

NoCall == [args |-> <<>>, kwargs |-> <<>>]

Scenarios ==
  { [config |-> c, files |-> f, doc |-> d] :
      c \in Configs, f \in SUBSET FileUniverse, d \in ResolveDocs }
  \cup
  { [config |-> DefaultConfig, files |-> {<<"/", "proj", "a.csv">>}, doc |-> d] :
      d \in LayoutDocs }

Init ==
  /\ \E s \in Scenarios :
       /\ config = s.config
       /\ files = s.files
       /\ doc = s.doc
       /\ markdown = DocText(s.doc)
       /\ prov = [i \in 1..Len(DocText(s.doc)) |-> i]
  /\ pc = "call"
  /\ cwd = StartDir
  /\ prevdir = StartDir
  /\ mkdocs_dir = Unbound
  /\ search_directories = <<>>
  /\ ri = 1
  /\ matches = <<>>
  /\ spans = <<>>
  /\ mi = 1
  /\ parsed = NoCall
  /\ pd_args = <<>>
  /\ pd_kwargs = <<>>
  /\ di = 1
  /\ input_file_path = Unbound
  /\ output_file_path = Unbound
  /\ markdown_table = <<>>
  /\ error = "none"
  /\ message = NoMessage
  /\ returned = NotReturned
  /\ calls = <<>>
  /\ subs = <<>>

\* ------------------------------------------------------------ exceptions
\* Raise, were the exception caught and the text as it stands returned.
RaiseButReturn(err, msg) ==
  /\ pc' = "returned"
  /\ error' = err
  /\ message' = msg
  /\ returned' = markdown

\* An exception leaves on_page_markdown: nothing is returned.
Raise(err, msg) ==
  /\ pc' = "raised"
  /\ error' = err
  /\ message' = msg
  /\ returned' = returned

\* utils.cd: __enter__ remembers the directory and changes to newdir
CdEnter(newdir) == [cwd |-> newdir, prevdir |-> cwd]

\* utils.cd: __exit__ goes back, whether or not the block raised
CdExit == prevdir

\* RaiseInsideWith, were the directory changed without the with block.
RaiseOutsideWith(err, msg) ==
  /\ Raise(err, msg)
  /\ cwd' = cwd

\* An exception raised in the block of `with cd(mkdocs_dir):`
RaiseInsideWith(err, msg) ==
  /\ Raise(err, msg)
  /\ cwd' = CdExit

\* ------------------------------------------------------------ actions
\* lines 63-71
Begin ==
  /\ pc = "call"
  /\ mkdocs_dir' = MkdocsDir(config)
  /\ search_directories' = SearchDirectories(config)
  /\ ri' = 1
  /\ pc' = "reader"
  /\ UNCHANGED <<inputs, markdown, prov, cwd, prevdir, matches, spans, mi,
                 call_args, di, paths, markdown_table, error, message,
                 returned, calls, subs>>

\* lines 73-83: the next reader's pattern and its matches in the text as it is
\* now
ScanReader ==
  /\ pc = "reader"
  /\ ri <= Len(READERS)
  /\ LET ms == FindIter(READERS[ri], markdown, 1)
     IN /\ matches' = FindAll(READERS[ri], markdown)
        /\ spans' = [k \in 1..Len(ms) |-> Slice(prov, ms[k].start, ms[k].end)]
  /\ mi' = 1
  /\ pc' = "result"
  /\ UNCHANGED <<inputs, markdown, prov, cwd, prevdir, mkdocs_dir,
                 search_directories, ri, call_args, di, paths, markdown_table,
                 error, message, returned, calls, subs>>

\* line 83, matches exhausted: on to the next reader
NextReader ==
  /\ pc = "result"
  /\ mi > Len(matches)
  /\ ri' = ri + 1
  /\ pc' = "reader"
  /\ UNCHANGED <<inputs, markdown, prov, cwd, prevdir, mkdocs_dir,
                 search_directories, matches, spans, mi, call_args, di, paths,
                 markdown_table, error, message, returned, calls, subs>>

\* line 131
Return ==
  /\ pc = "reader"
  /\ ri > Len(READERS)
  /\ returned' = markdown
  /\ pc' = "returned"
  /\ UNCHANGED <<inputs, markdown, prov, cwd, prevdir, mkdocs_dir,
                 search_directories, locals, call_args, di, paths,
                 markdown_table, error, message, calls, subs>>

\* line 86
Parse ==
  /\ pc = "result"
  /\ mi <= Len(matches)
  /\ LET r == ParseArgKwarg(matches[mi][2])
     IN IF r.error # "none"
        THEN /\ Raise(r.error, NoMessage)
             /\ UNCHANGED call_args
        ELSE /\ pd_args' = r.args
             /\ pd_kwargs' = r.kwargs
             /\ parsed' = [args |-> r.args, kwargs |-> r.kwargs]
             /\ pc' = "cd"
             /\ UNCHANGED <<error, message, returned>>
  /\ UNCHANGED <<inputs, markdown, prov, cwd, prevdir, mkdocs_dir,
                 search_directories, locals, di, paths, markdown_table,
                 calls, subs>>

\* line 89: entering the with block, and the start of the for loop of line 91
EnterCd ==
  /\ pc = "cd"
  /\ cwd' = CdEnter(mkdocs_dir).cwd
  /\ prevdir' = CdEnter(mkdocs_dir).prevdir
  /\ di' = 1
  /\ pc' = "search"
  /\ UNCHANGED <<inputs, markdown, prov, mkdocs_dir, search_directories,
                 locals, call_args, paths, markdown_table, error, message,
                 returned, calls, subs>>

\* lines 93-96: the first positional argument is overwritten in place
RewriteArgs(args, data_path) ==
  IF Len(args) > 0 THEN [args EXCEPT ![1] = Join(data_path, args[1])] ELSE args

\* lines 98-101
RewriteKwargs(kwargs, data_path) ==
  IF KwGet(kwargs, "filepath_or_buffer") # <<>>
  THEN [kwargs EXCEPT !["filepath_or_buffer"] =
          Join(data_path, kwargs["filepath_or_buffer"])]
  ELSE kwargs

\* input_file_path after lines 93-101
InputAfter(args, kwargs, before) ==
  IF KwGet(kwargs, "filepath_or_buffer") # <<>>
  THEN kwargs["filepath_or_buffer"]
  ELSE IF Len(args) > 0 THEN args[1] ELSE before

\* output_file_path after lines 93-101
OutputAfter(args, kwargs, data_path, before) ==
  IF KwGet(kwargs, "filepath_or_buffer") # <<>>
  THEN Join(data_path, kwargs["filepath_or_buffer"])
  ELSE IF Len(args) > 0 THEN Join(data_path, args[1]) ELSE before

\* lines 91-105: one pass of the loop over search_directories
SearchStep ==
  /\ pc = "search"
  /\ di <= Len(search_directories)
  /\ LET data_path == search_directories[di]
         out == OutputAfter(pd_args, pd_kwargs, data_path, output_file_path)
     IN /\ pd_args' = RewriteArgs(pd_args, data_path)
        /\ pd_kwargs' = RewriteKwargs(pd_kwargs, data_path)
        /\ input_file_path' =
             InputAfter(pd_args, pd_kwargs, input_file_path)
        /\ output_file_path' = out
        /\ IF out = Unbound
           THEN /\ RaiseInsideWith("UnboundLocalError", NoMessage)
                /\ UNCHANGED di
           ELSE IF Exists(files, mkdocs_dir, out)
           THEN /\ pc' = "render"
                /\ UNCHANGED <<di, cwd, error, message, returned>>
           ELSE /\ di' = di + 1
                /\ UNCHANGED <<pc, cwd, error, message, returned>>
  /\ UNCHANGED <<inputs, markdown, prov, prevdir, mkdocs_dir,
                 search_directories, locals, parsed, markdown_table, calls,
                 subs>>

\* lines 106-110: the loop ended without break
NotFound ==
  /\ pc = "search"
  /\ di > Len(search_directories)
  /\ RaiseInsideWith("FileNotFoundError",
                     [file |-> input_file_path, dirs |-> search_directories])
  /\ UNCHANGED <<inputs, markdown, prov, prevdir, mkdocs_dir,
                 search_directories, locals, call_args, di, paths,
                 markdown_table, calls, subs>>

\* The record of a call of a render function.
Call ==
  [reader |-> READERS[ri], args |-> pd_args, kwargs |-> pd_kwargs,
   cwd |-> cwd, span |-> spans[mi]]

\* line 112: the render function returns a table; the with block ends
Render ==
  /\ pc = "render"
  /\ \E f \in Fragments : markdown_table' = f
  /\ calls' = Append(calls, Call)
  /\ cwd' = CdExit
  /\ pc' = "substitute"
  /\ UNCHANGED <<inputs, markdown, prov, prevdir, mkdocs_dir,
                 search_directories, locals, call_args, di, paths, error,
                 message, returned, subs>>

\* line 112: the render function raises
RenderFails ==
  /\ pc = "render"
  /\ calls' = Append(calls, Call)
  /\ RaiseInsideWith("RenderError", NoMessage)
  /\ UNCHANGED <<inputs, markdown, prov, prevdir, mkdocs_dir,
                 search_directories, locals, call_args, di, paths,
                 markdown_table, subs>>

\* lines 114-128: indent the table and put it in place of the first match
Substitute ==
  /\ pc = "substitute"
  /\ LET table == IndentTable(markdown_table, matches[mi][1])
         m == Search(READERS[ri], markdown, 1)
         put == ExpandTemplate(table)
     IN IF ~TemplateOk(table)
        THEN /\ Raise("re.error", NoMessage)
             /\ UNCHANGED <<markdown, prov, mi, subs>>
        ELSE /\ markdown' = Sub(READERS[ri], table, markdown)
             /\ prov' = IF m = NoMatch THEN prov
                        ELSE Slice(prov, 1, m.start - 1)
                               \o Repeat(0 - (Len(subs) + 1), Len(put))
                               \o Slice(prov, m.end + 1, Len(prov))
             /\ subs' = Append(subs,
                  [reader |-> READERS[ri], occurrence |-> mi,
                   found |-> spans[mi], captured |-> Len(matches[mi][1]),
                   fragment |-> markdown_table, at |-> m.start,
                   replaced |-> IF m = NoMatch THEN <<>>
                                ELSE Slice(prov, m.start, m.end)])
             /\ mi' = mi + 1
             /\ pc' = "result"
             /\ UNCHANGED <<error, message, returned>>
  /\ UNCHANGED <<inputs, cwd, prevdir, mkdocs_dir, search_directories, ri,
                 matches, spans, call_args, di, paths, markdown_table, calls>>

Next ==
  \/ Begin
  \/ ScanReader
  \/ NextReader
  \/ Return
  \/ Parse
  \/ EnterCd
  \/ SearchStep
  \/ NotFound
  \/ Render
  \/ RenderFails
  \/ Substitute

Spec == Init /\ [][Next]_vars

\* ------------------------------------------------------------ properties
\* The file name the current occurrence names, as written in its tag
\* (empty when it names none).
WrittenName ==
  IF KwGet(parsed.kwargs, "filepath_or_buffer") # <<>>
  THEN parsed.kwargs["filepath_or_buffer"]
  ELSE IF Len(parsed.args) > 0 THEN parsed.args[1] ELSE <<>>

\* The path the render function is about to be given.
HandedPath ==
  IF KwGet(pd_kwargs, "filepath_or_buffer") # <<>>
  THEN pd_kwargs["filepath_or_buffer"]
  ELSE IF Len(pd_args) > 0 THEN pd_args[1] ELSE <<>>

\* The named file exists in the i-th search directory.
HasFile(i) ==
  Exists(files, mkdocs_dir, Join(search_directories[i], WrittenName))

FirstHit(i) == HasFile(i) /\ \A j \in 1..(i - 1) : ~HasFile(j)

\* C1: when the named file exists in search directory i and in none before
\* it, resolution does not raise and the render function is handed the file
\* name joined to directory i, and to that directory only (two paths that
\* differ in "." components alone are taken as the same path).
C1_FirstExistingDirectoryWins ==
  \A i \in 1..Len(search_directories) :
    (WrittenName # <<>> /\ FirstHit(i)) =>
      /\ ~(pc = "raised" /\ error = "FileNotFoundError")
      /\ pc = "render" =>
           Normalize(HandedPath) = Normalize(Join(search_directories[i], WrittenName))

\* C2: when the named file exists in no search directory, processing fails
\* with FileNotFoundError, whose message names the file as written in the tag
\* and lists the search directories in order.
C2_NotFoundNamesFileAndDirectories ==
  (WrittenName # <<>> /\ \A i \in 1..Len(search_directories) : ~HasFile(i)) =>
    /\ pc # "render"
    /\ (pc = "raised" /\ error = "FileNotFoundError") =>
         message = [file |-> WrittenName, dirs |-> search_directories]

\* C3: every substitution replaces exactly the occurrence it was rendered for:
\* the tokens replaced are the tokens of that occurrence as it was found.
C3_EachFragmentAtItsOccurrence ==
  \A k \in 1..Len(subs) : subs[k].replaced = subs[k].found

\* The text the k-th substitution put, as it stands in markdown.
Inserted(k) ==
  LET at == {i \in 1..Len(prov) : prov[i] = 0 - k}
  IN IF at = {} THEN <<>> ELSE Slice(markdown, Min(at), Max(at))

\* C4: right after a substitution, every line of the text put in place of the
\* tag starts with exactly 4 * floor(n / 4) spaces, n being the number of
\* leading spaces captured (no line of a fragment here starts with a space).
C4_EveryLineIndented ==
  (pc = "result" /\ mi > 1) =>
    LET s == subs[Len(subs)]
        p == 4 * (s.captured \div 4)
        lines == SplitOn(Inserted(Len(subs)), "nl")
    IN \A k \in 1..Len(lines) :
         /\ Len(lines[k]) >= p
         /\ \A i \in 1..p : lines[k][i] = "sp"
         /\ Len(lines[k]) > p => lines[k][p + 1] # "sp"

\* C5: the working directory is the base directory only between entering the
\* with block and leaving it (resolution and render call), and is the
\* directory of before at every other point, whatever way the block was left.
C5_WorkingDirectoryScoped ==
  /\ pc \in {"search", "render"} => (cwd = mkdocs_dir /\ prevdir = StartDir)
  /\ pc \notin {"search", "render"} => cwd = StartDir

\* C5 witness: the render function raised and the directory is back.
C5_Witness ==
  /\ pc = "raised"
  /\ error = "RenderError"
  /\ calls # <<>>
  /\ calls[Len(calls)].cwd = mkdocs_dir
  /\ cwd = StartDir

\* C6: a failure ends the processing of the document: nothing is returned,
\* and no step (no render call, no substitution) is taken after it.
C6_FailureAborts ==
  /\ [](error # "none" => (pc = "raised" /\ returned = NotReturned))
  /\ [][error = "none"]_vars

\* C6 witness: a later occurrence failed after an earlier one was substituted.
C6_Witness ==
  /\ pc = "raised"
  /\ error \in {"RenderError", "UnboundLocalError", "FileNotFoundError"}
  /\ subs # <<>>
  /\ markdown # DocText(doc)
  /\ returned = NotReturned

\* The raw argument texts of the tags of a reader, in the order written.
WrittenArgs(reader) ==
  LET own == SelectSeq(doc.tags, LAMBDA t : t.reader = reader)
  IN [k \in 1..Len(own) |-> own[k].args]

\* C7: the scan of the text as written yields one occurrence per tag of the
\* name, in the order written, each with the argument text between its own
\* parentheses.
C7_OneOccurrencePerTag ==
  (pc = "result" /\ ri = 1 /\ subs = <<>>) =>
    [k \in 1..Len(matches) |-> matches[k][2]] = WrittenArgs(READERS[1])

\* C8: the search list is data_path, followed by the page's directory exactly
\* when search_page_directory is set; a file in data_path is taken from there,
\* and with search_page_directory unset a file that is only in the page's
\* directory is not found.
C8_SearchPath ==
  /\ pc # "call" =>
       /\ search_directories[1] = config.data_path
       /\ Len(search_directories) = IF config.search_page_directory THEN 2 ELSE 1
       /\ config.search_page_directory => search_directories[2] = PageDir
  /\ (pc = "render" /\ WrittenName # <<>>
        /\ Exists(files, mkdocs_dir, Join(config.data_path, WrittenName))) =>
       HandedPath = Join(config.data_path, WrittenName)
  /\ (pc \in {"render", "raised"} /\ WrittenName # <<>>
        /\ error \notin {"ArgSyntaxError", "DuplicateArgumentError", "re.error"}
        /\ ~config.search_page_directory
        /\ ~Exists(files, mkdocs_dir, Join(config.data_path, WrittenName))) =>
       (pc = "raised" /\ error = "FileNotFoundError")

\* C8 witness: the file is in data_path and in the page's directory, and the
\* one of data_path is about to be rendered.
C8_Witness ==
  /\ pc = "render"
  /\ config.search_page_directory
  /\ WrittenName # <<>>
  /\ Normalize(Join(mkdocs_dir, Join(config.data_path, WrittenName)))
       # Normalize(Join(mkdocs_dir, Join(PageDir, WrittenName)))
  /\ Exists(files, mkdocs_dir, Join(config.data_path, WrittenName))
  /\ Exists(files, mkdocs_dir, Join(PageDir, WrittenName))
  /\ HandedPath = Join(config.data_path, WrittenName)

\* lines 91-110 run with input_file_path and output_file_path as they are when
\* the function starts: what resolving an occurrence does on its own.
RECURSIVE Resolve(_, _, _, _, _)
Resolve(args, kwargs, i, inp, out) ==
  IF i > Len(search_directories)
  THEN [kind |-> "FileNotFoundError", path |-> inp]
  ELSE LET data_path == search_directories[i]
           out2 == OutputAfter(args, kwargs, data_path, out)
       IN IF out2 = Unbound
          THEN [kind |-> "UnboundLocalError", path |-> out2]
          ELSE IF Exists(files, mkdocs_dir, out2)
          THEN [kind |-> "render", path |-> out2]
          ELSE Resolve(RewriteArgs(args, data_path),
                       RewriteKwargs(kwargs, data_path), i + 1,
                       InputAfter(args, kwargs, inp), out2)

\* C9: what resolving an occurrence comes to (the render call and the path
\* found, or the error raised) is what it comes to for the same occurrence
\* when nothing was processed before it.
C9_OutcomeDependsOnOccurrenceOnly ==
  LET alone == Resolve(parsed.args, parsed.kwargs, 1, Unbound, Unbound)
  IN /\ pc = "render" =>
          (alone.kind = "render" /\ alone.path = output_file_path)
     /\ (pc = "raised" /\ error \in {"FileNotFoundError", "UnboundLocalError"}) =>
          alone.kind = error

\* Tokens of the text passed in, none put by a substitution.
FromSource(span) == \A i \in 1..Len(span) : span[i] > 0

\* C10: every occurrence found, rendered or replaced is text of the document
\* as it was passed in: no token a substitution put is matched as (part of) a
\* tag.
C10_RenderedTextIsNeverATag ==
  /\ \A k \in 1..Len(spans) : FromSource(spans[k])
  /\ \A k \in 1..Len(calls) : FromSource(calls[k].span)
  /\ \A k \in 1..Len(subs) : FromSource(subs[k].replaced)

====
